---- MODULE Spec2Model ----
(***************************************************************************)
(* Instruction encoding and transaction assembly of the Solana DAO client. *)
(*                                                                         *)
(* Two implementations are modelled side by side:                          *)
(*   "web"    - solana-dao.ts, the web assembler (create*Transaction)      *)
(*   "script" - examples/client.js, the script client (createDao, vote...) *)
(*                                                                         *)
(* Representation                                                          *)
(*   string  : sequence of Unicode code points                             *)
(*   Buffer  : sequence of bytes (0..255)                                  *)
(*   number  : [negative, mag] - sign and little-endian base-256 magnitude *)
(*             without trailing zero bytes (what bn.js holds after         *)
(*             new BN(n.toString()) for an integer n printed in plain      *)
(*             decimal digits); nan tells a NaN from an integer            *)
(*   PublicKey : a pair <<origin, index>>                                  *)
(***************************************************************************)
EXTENDS Integers, Sequences, FiniteSets, TLC

\* ------------------------------------------------------------------------
\* Bounds of the model
\* ------------------------------------------------------------------------
MaxStrLen == 2      \* longest free-form string drawn as an input
MaxKeys == 3        \* Keypair.generate() runs at most this many times
MaxBlocks == 2      \* the ledger advances to at most this block

\* ------------------------------------------------------------------------
\* Strings and UTF-8
\* ------------------------------------------------------------------------
\* code points drawn for free-form text: 'a', e-acute, euro sign, U+1F600
Alphabet == {97, 233, 8364, 128512}

RECURSIVE StringsUpTo(_)
StringsUpTo(n) ==
  IF n = 0 THEN {<<>>}
  ELSE LET shorter == StringsUpTo(n - 1)
       IN  shorter \cup {Append(s, c) : s \in {t \in shorter : Len(t) = n - 1}, c \in Alphabet}

\* UTF-16 code units of one code point (what String.prototype.length counts)
Utf16Units(cp) == IF cp >= 65536 THEN 2 ELSE 1

RECURSIVE JsLength(_)
JsLength(s) == IF s = <<>> THEN 0 ELSE Utf16Units(Head(s)) + JsLength(Tail(s))

\* UTF-8 bytes of one code point
Utf8(cp) ==
  IF cp < 128 THEN <<cp>>
  ELSE IF cp < 2048 THEN <<192 + (cp \div 64), 128 + (cp % 64)>>
  ELSE IF cp < 65536 THEN
    <<224 + (cp \div 4096), 128 + ((cp \div 64) % 64), 128 + (cp % 64)>>
  ELSE <<240 + (cp \div 262144), 128 + ((cp \div 4096) % 64),
         128 + ((cp \div 64) % 64), 128 + (cp % 64)>>

RECURSIVE Utf8Str(_)
Utf8Str(s) == IF s = <<>> THEN <<>> ELSE Utf8(Head(s)) \o Utf8Str(Tail(s))

RECURSIVE Zeros(_)
Zeros(n) == IF n <= 0 THEN <<>> ELSE <<0>> \o Zeros(n - 1)

\* buf.writeUInt32LE(n, 0): four bytes, least significant first
WriteUInt32LE(n) ==
  <<n % 256, (n \div 256) % 256, (n \div 65536) % 256, (n \div 16777216) % 256>>

\* buf.write(str, offset) into a buffer with `room` bytes left: characters are
\* written in UTF-8 while a whole character still fits; a character that does
\* not fit is not written, and nothing after it is
RECURSIVE BufferWrite(_, _)
BufferWrite(s, room) ==
  IF s = <<>> THEN <<>>
  ELSE LET b == Utf8(Head(s))
       IN  IF Len(b) <= room THEN b \o BufferWrite(Tail(s), room - Len(b))
           ELSE <<>>

\* a serializeString that gives the empty string one byte of padding
serializeStringPadded(s) ==
  LET size == IF s = <<>> THEN 1 ELSE JsLength(s)
      written == BufferWrite(s, size)
  IN  WriteUInt32LE(size) \o written \o Zeros(size - Len(written))

\* Buffer.alloc(4 + str.length); writeUInt32LE(str.length, 0); write(str, 4)
\* (Buffer.alloc zero-fills, so what write() leaves untouched stays 0)
serializeString(s) ==
  LET size == JsLength(s)
      written == BufferWrite(s, size)
  IN  WriteUInt32LE(size) \o written \o Zeros(size - Len(written))

\* ------------------------------------------------------------------------
\* Numbers and bn.js
\* ------------------------------------------------------------------------
RECURSIVE Mag(_)
Mag(n) == IF n = 0 THEN <<>> ELSE <<n % 256>> \o Mag(n \div 256)

Num(n) == [negative |-> n < 0, mag |-> Mag(IF n < 0 THEN 0 - n ELSE n), nan |-> "no"]

RECURSIVE Repeat(_, _)
Repeat(b, n) == IF n <= 0 THEN <<>> ELSE <<b>> \o Repeat(b, n - 1)

Whole(negative, mag) == [negative |-> negative, mag |-> mag, nan |-> "no"]

MaxU64 == Whole(FALSE, Repeat(255, 8))                \* 2^64 - 1
MaxI64 == Whole(FALSE, Repeat(255, 7) \o <<127>>)     \* 2^63 - 1
Pow2_63 == Whole(FALSE, Zeros(7) \o <<128>>)          \* 2^63
MinI64 == Whole(TRUE, Zeros(7) \o <<128>>)            \* -2^63
Pow2_64 == Whole(FALSE, Zeros(8) \o <<1>>)            \* 2^64

\* how the installed bn.js reads the text "NaN": its parser rejects the letters
\* ('Invalid character'), or it takes them as digits in base 10, N = 23 and
\* a = 10, which makes (23 * 10 + 10) * 10 + 23
NaNReadings == {"rejected", "asDigits"}
NaNAsDigits == 2423

\* the number NaN, with what new BN("NaN") holds
NaN(reading) ==
  [negative |-> FALSE, mag |-> IF reading = "asDigits" THEN Mag(NaNAsDigits) ELSE <<>>,
   nan |-> reading]

IsInteger(x) == x.nan = "no"
IsZero(x) == IsInteger(x) /\ x.mag = <<>>
\* !x for a number: 0 and NaN
Falsy(x) == ~IsInteger(x) \/ x.mag = <<>>
FitsU64(x) == (~x.negative \/ IsZero(x)) /\ Len(x.mag) <= 8
FitsI64(x) ==
  \/ Len(x.mag) < 8
  \/ Len(x.mag) = 8 /\ x.mag[8] < 128
  \/ x = MinI64

\* outcome of an encoder: the bytes, or the error it threw
Ok(bytes) == [ok |-> TRUE, bytes |-> bytes, err |-> "none"]
Err(e) == [ok |-> FALSE, bytes |-> <<>>, err |-> e]

\* bn.toArray('le', len): byteLength() must not exceed the requested length
\* (an assertion error otherwise), the result is zero-padded to it
ToArrayLE(mag, len) ==
  IF Len(mag) > len THEN Err("ByteArrayLongerThanDesired")
  ELSE Ok(mag \o Zeros(len - Len(mag)))

\* new BN(x.toString()).toArray('le', 8).forEach(... buf[index] = byte):
\* toArray emits the magnitude words only, the sign is not looked at
serializeU64(x) ==
  IF x.nan = "rejected" THEN Err("Invalid character") ELSE ToArrayLE(x.mag, 8)

\* ------------------------------------------------------------------------
\* Instruction builders
\* ------------------------------------------------------------------------
RECURSIVE ConcatStrings(_)
ConcatStrings(ss) ==
  IF ss = <<>> THEN <<>> ELSE serializeString(Head(ss)) \o ConcatStrings(Tail(ss))

\* the integer fields in order; the first one that does not fit throws
RECURSIVE ConcatInts(_)
ConcatInts(xs) ==
  IF xs = <<>> THEN Ok(<<>>)
  ELSE LET h == serializeU64(Head(xs))
           t == ConcatInts(Tail(xs))
       IN  IF ~h.ok THEN h ELSE IF ~t.ok THEN t ELSE Ok(h.bytes \o t.bytes)

\* the value of a parameter for which the caller wrote no argument
Undefined == <<-1>>

\* the strings are serialized first, and serializeString reads str.length,
\* which throws when str is undefined; then the integers; then
\* Buffer.concat([instructionBuf, <strings...>, <integers...>])
Payload(tag, strs, ints) ==
  LET i == ConcatInts(ints)
  IN  IF \E k \in DOMAIN strs : strs[k] = Undefined
      THEN Err("Cannot read properties of undefined")
      ELSE IF ~i.ok THEN i ELSE Ok(<<tag>> \o ConcatStrings(strs) \o i.bytes)

TagCreateDao == 0
TagCreateProposal == 1
TagVote == 2
TagFeatured == 3
TagModules == 4

\* strs = name, description, discordServer, twitter, telegram, instagram,
\* tiktok, website, treasury, profile, tokenAddress
serializeCreateDaoInstruction(strs, solPriceUsd) ==
  Payload(TagCreateDao, strs, <<solPriceUsd>>)

serializeCreateProposalInstruction(name, description, daoId, podId, startTime, endTime) ==
  Payload(TagCreateProposal, <<name, description, daoId, podId>>, <<startTime, endTime>>)

serializeVoteInstruction(voteValue, proposalId) ==
  Payload(TagVote, <<voteValue, proposalId>>, <<>>)

\* solana-dao.ts: daoId, solPriceUsd
serializeFeaturedInstruction(daoId, solPriceUsd) ==
  Payload(TagFeatured, <<daoId>>, <<solPriceUsd>>)

\* client.js has its own copy of the encoders
serializeStringJs(s) ==
  LET size == JsLength(s)
      written == BufferWrite(s, size)
  IN  WriteUInt32LE(size) \o written \o Zeros(size - Len(written))

RECURSIVE ConcatStringsJs(_)
ConcatStringsJs(ss) ==
  IF ss = <<>> THEN <<>> ELSE serializeStringJs(Head(ss)) \o ConcatStringsJs(Tail(ss))

PayloadJs(tag, strs, ints) ==
  LET i == ConcatInts(ints)
  IN  IF \E k \in DOMAIN strs : strs[k] = Undefined
      THEN Err("Cannot read properties of undefined")
      ELSE IF ~i.ok THEN i ELSE Ok(<<tag>> \o ConcatStringsJs(strs) \o i.bytes)

\* strs = name, description, discordServer, twitter, telegram, instagram,
\* tiktok, website, treasury, profile, token_address
serializeCreateDaoInstructionJs(strs, solPriceUsd) ==
  PayloadJs(0, strs, <<solPriceUsd>>)

serializeCreateProposalInstructionJs(name, description, daoId, podId, startTime, endTime) ==
  PayloadJs(1, <<name, description, daoId, podId>>, <<startTime, endTime>>)

serializeVoteInstructionJs(voteValue, proposalId) ==
  PayloadJs(2, <<voteValue, proposalId>>, <<>>)

\* a script client that writes the module type before the DAO
serializeModulesInstructionJsSwapped(daoId, moduleType, solPriceUsd) ==
  PayloadJs(4, <<moduleType, daoId>>, <<solPriceUsd>>)

serializeModulesInstructionJs(daoId, moduleType, solPriceUsd) ==
  PayloadJs(4, <<daoId, moduleType>>, <<solPriceUsd>>)

\* a script client whose Featured payload opens with the byte of Module
serializeFeaturedInstructionDaysTagged4(daoId, days, solPriceUsd) ==
  PayloadJs(4, <<daoId>>, <<days, solPriceUsd>>)

\* client.js: daoId, days, solPriceUsd
serializeFeaturedInstructionDays(daoId, days, solPriceUsd) ==
  PayloadJs(3, <<daoId>>, <<days, solPriceUsd>>)

serializeModulesInstruction(daoId, moduleType, solPriceUsd) ==
  Payload(TagModules, <<daoId, moduleType>>, <<solPriceUsd>>)

\* ------------------------------------------------------------------------
\* Public keys, transactions
\* ------------------------------------------------------------------------
NoKey == <<"none", 0>>                 \* wallet.publicKey === null
WalletKey == <<"wallet", 1>>
SystemProgramId == <<"system", 0>>     \* SystemProgram.programId
FEE_ADDRESS == <<"fee", 0>>
PROGRAM_ID == <<"program", 1>>         \* solana-dao.ts
programId == <<"program", 2>>          \* client.js

\* the strings that are base58 addresses of 32 bytes: "D1", "D2"
KnownAddresses == << <<68, 49>>, <<68, 50>> >>
\* "!" is not base58
MalformedAddress == <<33>>

\* new PublicKey(str): the key, or "Invalid public key input"
NewPublicKey(str) ==
  IF \E i \in DOMAIN KnownAddresses : KnownAddresses[i] = str
  THEN [ok |-> TRUE, key |-> <<"addr", CHOOSE i \in DOMAIN KnownAddresses : KnownAddresses[i] = str>>]
  ELSE [ok |-> FALSE, key |-> NoKey]

Meta(pubkey, isSigner, isWritable) ==
  [pubkey |-> pubkey, isSigner |-> isSigner, isWritable |-> isWritable]

\* keys of the CreateDao instruction
DaoKeys(wallet, account) ==
  << Meta(wallet, TRUE, TRUE),
     Meta(account, TRUE, TRUE),
     Meta(SystemProgramId, FALSE, FALSE),
     Meta(FEE_ADDRESS, FALSE, TRUE) >>

\* the parent entity after the system program instead of before it
ParentKeysMisordered(wallet, account, parent) ==
  << Meta(wallet, TRUE, TRUE),
     Meta(account, TRUE, TRUE),
     Meta(SystemProgramId, FALSE, FALSE),
     Meta(parent, FALSE, FALSE),
     Meta(FEE_ADDRESS, FALSE, TRUE) >>

\* keys of the CreateProposal, Vote, Featured and Modules instructions
ParentKeys(wallet, account, parent) ==
  << Meta(wallet, TRUE, TRUE),
     Meta(account, TRUE, TRUE),
     Meta(parent, FALSE, FALSE),
     Meta(SystemProgramId, FALSE, FALSE),
     Meta(FEE_ADDRESS, FALSE, TRUE) >>

NoTransaction ==
  [instructions |-> <<>>, recentBlockhash |-> 0, feePayer |-> NoKey, signatures |-> <<>>]

\* new Transaction().add(instruction)
NewTransaction(instruction) == [NoTransaction EXCEPT !.instructions = <<instruction>>]

\* the keys that must sign, the fee payer first, each once
RECURSIVE SignerKeys(_, _)
SignerKeys(metas, seen) ==
  IF metas = <<>> THEN <<>>
  ELSE LET k == Head(metas).pubkey
       IN  IF Head(metas).isSigner /\ k \notin seen
           THEN <<k>> \o SignerKeys(Tail(metas), seen \cup {k})
           ELSE SignerKeys(Tail(metas), seen)

\* every required signer's slot filled, the fee payer's too
SignWithEveryone(tx, signers) ==
  LET required == <<tx.feePayer>> \o SignerKeys(tx.instructions[1].keys, {tx.feePayer})
  IN  [tx EXCEPT !.signatures =
         [i \in DOMAIN required |-> [publicKey |-> required[i], signed |-> TRUE]]]

\* transaction.partialSign(...signers) / transaction.sign(...signers): one
\* signature slot per required signer, filled for the signers given
SignWith(tx, signers) ==
  LET required == <<tx.feePayer>> \o SignerKeys(tx.instructions[1].keys, {tx.feePayer})
  IN  [tx EXCEPT !.signatures =
         [i \in DOMAIN required |-> [publicKey |-> required[i], signed |-> required[i] \in signers]]]

\* ------------------------------------------------------------------------
\* State
\* ------------------------------------------------------------------------
VARIABLES
  calls,      \* per slot: the build call running there (or the last one)
  nextKey,    \* number of the key pair Keypair.generate() returns next
  blockhash,  \* the block the ledger connection would report now
  issued,     \* the identities the build calls have generated so far, in order
  ser         \* last direct call of an exported encoder

vars == <<calls, nextKey, blockhash, issued, ser>>

Slots == {1}

Kinds == {"dao", "proposal", "vote", "featured", "module"}
PaidKinds == {"dao", "featured", "module"}

\* enumerations of the wire contract
POD == <<80, 79, 68>>
POL == <<80, 79, 76>>
XYZ == <<88, 89, 90>>
ModuleTypes == {POD, POL}
VoteFor == <<102, 111, 114>>
VoteAgainst == <<97, 103, 97, 105, 110, 115, 116>>
VoteYes == <<121, 101, 115>>
VoteNo == <<110, 111>>
VoteAbstain == <<97, 98, 115, 116, 97, 105, 110>>
VoteMaybe == <<109, 97, 121, 98, 101>>
VoteValues == {VoteFor, VoteAgainst, VoteYes, VoteNo, VoteAbstain}

NoPrice == [given |-> FALSE, val |-> Num(0)]
Price(x) == [given |-> TRUE, val |-> x]

IdleCall ==
  [impl |-> "web", kind |-> "dao", pc |-> "idle", wallet |-> NoKey,
   strs |-> <<>>, ints |-> <<>>, override |-> NoPrice,
   price |-> Num(0), account |-> NoKey, data |-> <<>>, parent |-> NoKey,
   tx |-> NoTransaction, retTx |-> NoTransaction, retAccount |-> NoKey,
   err |-> "none", trace |-> <<>>, site |-> "none", fee |-> <<>>, feed |-> "none"]

NewCall(impl, kind, wallet, strs, ints, override) ==
  [IdleCall EXCEPT !.impl = impl, !.kind = kind, !.pc = "running", !.wallet = wallet,
                   !.strs = strs, !.ints = ints, !.override = override]

Ev(r, e) == [r EXCEPT !.trace = Append(@, e)]
Throw(r, e) == [Ev(r, "throw") EXCEPT !.pc = "threw", !.err = e]

\* position of the first occurrence of event e in a trace, 0 when absent
Pos(trace, e) ==
  IF \E i \in DOMAIN trace : trace[i] = e
  THEN CHOOSE i \in DOMAIN trace : trace[i] = e /\ \A j \in 1..(i - 1) : trace[j] # e
  ELSE 0
Happened(r, e) == Pos(r.trace, e) > 0
Count(trace, e) == Cardinality({i \in DOMAIN trace : trace[i] = e})

\* the string argument naming the parent entity
ParentArg(r) == IF r.kind = "proposal" THEN r.strs[3]
                ELSE IF r.kind = "vote" THEN r.strs[2]
                ELSE r.strs[1]

\* builders that stamp the payload with the number of the call's key pair
EncodeStamped(r) ==
  LET d == CASE r.kind = "dao" -> serializeCreateDaoInstruction(r.strs, r.price)
             [] r.kind = "proposal" ->
                  serializeCreateProposalInstruction(r.strs[1], r.strs[2], r.strs[3], r.strs[4],
                                                     r.ints[1], r.ints[2])
             [] r.kind = "vote" -> serializeVoteInstruction(r.strs[1], r.strs[2])
             [] r.kind = "featured" ->
                  IF r.impl = "web" THEN serializeFeaturedInstruction(r.strs[1], r.price)
                  ELSE serializeFeaturedInstructionDays(r.strs[1], r.ints[1], r.price)
             [] r.kind = "module" -> serializeModulesInstruction(r.strs[1], r.strs[2], r.price)
  IN  IF d.ok THEN Ok(d.bytes \o <<r.account[2]>>) ELSE d

\* the serialize*Instruction call of each function
Encode(r) ==
  IF r.impl = "web"
  THEN CASE r.kind = "dao" -> serializeCreateDaoInstruction(r.strs, r.price)
         [] r.kind = "proposal" ->
              serializeCreateProposalInstruction(r.strs[1], r.strs[2], r.strs[3], r.strs[4],
                                                 r.ints[1], r.ints[2])
         [] r.kind = "vote" -> serializeVoteInstruction(r.strs[1], r.strs[2])
         [] r.kind = "featured" -> serializeFeaturedInstruction(r.strs[1], r.price)
         [] r.kind = "module" -> serializeModulesInstruction(r.strs[1], r.strs[2], r.price)
  ELSE CASE r.kind = "dao" -> serializeCreateDaoInstructionJs(r.strs, r.price)
         [] r.kind = "proposal" ->
              serializeCreateProposalInstructionJs(r.strs[1], r.strs[2], r.strs[3], r.strs[4],
                                                   r.ints[1], r.ints[2])
         [] r.kind = "vote" -> serializeVoteInstructionJs(r.strs[1], r.strs[2])
         [] r.kind = "featured" ->
              serializeFeaturedInstructionDays(r.strs[1], r.ints[1], r.price)
         [] r.kind = "module" -> serializeModulesInstructionJs(r.strs[1], r.strs[2], r.price)

\* build calls that keep the parent identifier in one variable of the module,
\* where the call that started last has left its own
BuildInstructionSharedParent(r) ==
  LET program == IF r.impl = "web" THEN PROGRAM_ID ELSE programId
      last == calls[CHOOSE d \in DOMAIN calls : \A e \in DOMAIN calls : e <= d]
      shared == IF last.kind # "dao" /\ last.strs # <<>> THEN ParentArg(last) ELSE ParentArg(r)
  IN  IF r.kind = "dao"
      THEN [r EXCEPT !.tx = NewTransaction(
              [keys |-> DaoKeys(r.wallet, r.account), programId |-> program, data |-> r.data])]
      ELSE LET p == NewPublicKey(shared)
               r1 == Ev(r, "parseParent")
           IN  IF ~p.ok THEN Throw(r1, "Invalid public key input")
               ELSE [r1 EXCEPT !.parent = p.key,
                               !.tx = NewTransaction(
                                 [keys |-> ParentKeys(r.wallet, r.account, p.key),
                                  programId |-> program, data |-> r.data])]

\* new TransactionInstruction({keys: [...], programId, data}); the keys array
\* is evaluated first, new PublicKey(parent) inside it
BuildInstruction(r) ==
  LET program == IF r.impl = "web" THEN PROGRAM_ID ELSE programId
  IN  IF r.kind = "dao"
      THEN [r EXCEPT !.tx = NewTransaction(
              [keys |-> DaoKeys(r.wallet, r.account), programId |-> program, data |-> r.data])]
      ELSE LET p == NewPublicKey(ParentArg(r))
               r1 == Ev(r, "parseParent")
           IN  IF ~p.ok THEN Throw(r1, "Invalid public key input")
               ELSE [r1 EXCEPT !.parent = p.key,
                               !.tx = NewTransaction(
                                 [keys |-> ParentKeys(r.wallet, r.account, p.key),
                                  programId |-> program, data |-> r.data])]

\* ------------------------------------------------------------------------
\* The fee the script client expects to pay
\* ------------------------------------------------------------------------
\* a number of lamports is its decimal digits, most significant first;
\* Infinity and NaN have no digits
FeeInfinity == <<-1>>
FeeNaN == <<-2>>

RECURSIVE DigitsOf(_)
DigitsOf(n) == IF n < 10 THEN <<n>> ELSE DigitsOf(n \div 10) \o <<n % 10>>

RECURSIVE TrimDigits(_)
TrimDigits(ds) == IF Len(ds) > 1 /\ Head(ds) = 0 THEN TrimDigits(Tail(ds)) ELSE ds

\* ds + 1
RECURSIVE AddOne(_)
AddOne(ds) ==
  IF ds = <<>> THEN <<1>>
  ELSE IF ds[Len(ds)] < 9 THEN [ds EXCEPT ![Len(ds)] = @ + 1]
  ELSE AddOne(SubSeq(ds, 1, Len(ds) - 1)) \o <<0>>

\* quotient and remainder of the number with digits ds by p, digit by digit
RECURSIVE LongDivide(_, _, _, _)
LongDivide(ds, p, rem, quot) ==
  IF ds = <<>> THEN [q |-> TrimDigits(quot), r |-> rem]
  ELSE LET cur == rem * 10 + Head(ds)
       IN  LongDivide(Tail(ds), p, cur % p, quot \o <<cur \div p>>)

\* the value of a magnitude of at most three bytes
RECURSIVE ToNat(_)
ToNat(mag) == IF mag = <<>> THEN 0 ELSE mag[1] + 256 * ToNat(Tail(mag))

\* Math.round((usd / (sol_price_usd / 100)) * 1_000_000_000) for usd > 0 and a
\* price that is NaN, 0, an integer of cents below 2^24 or one of 2^64 and
\* above: the nearest integer to usd * 100 * 10^9 / price, halves upwards
\* (the quotients met here are further from a half than the error of the
\* floating-point operations); a price of 0 divides by zero
FeeInLamports(usd, price) ==
  CASE ~IsInteger(price) -> FeeNaN
    [] IsInteger(price) /\ price.mag = <<>> -> FeeInfinity
    [] IsInteger(price) /\ Len(price.mag) \in 1..3 ->
         LET p == ToNat(price.mag)
             d == LongDivide(DigitsOf(usd * 100) \o Zeros(9), p, 0, <<>>)
         IN  IF 2 * d.r >= p THEN TrimDigits(AddOne(d.q)) ELSE d.q
    [] IsInteger(price) /\ Len(price.mag) >= 9 -> <<0>>

\* createDao: expectedFeeInSol = 20 / (sol_price_usd / 100)
createDaoFee(price) == FeeInLamports(20, price)

\* createFeatured: totalUsdFee = 20 * days
createFeaturedFee(days, price) == FeeInLamports(20 * ToNat(days.mag), price)

\* an activateModule that expects a fee of $5
activateModuleFeeOfFive(price) == FeeInLamports(5, price)

\* activateModule: expectedFeeInSol = 20 / (sol_price_usd / 100)
activateModuleFee(price) == FeeInLamports(20, price)

\* the expected fee the paid functions of the script client compute and log
\* once they have the price
LogFee(r) ==
  IF r.impl = "script" /\ r.kind \in PaidKinds
  THEN [r EXCEPT !.fee = CASE r.kind = "dao" -> createDaoFee(r.price)
                           [] r.kind = "featured" -> createFeaturedFee(r.ints[1], r.price)
                           [] r.kind = "module" -> activateModuleFee(r.price)]
  ELSE r

\* a build call that takes a key pair made once for all calls instead of
\* generating its own
AssembleWithSharedKey(r, key) ==
  LET r1 == Ev([LogFee(r) EXCEPT !.account = <<"gen", 1>>], "generateIdentity")
      d == Encode(r1)
      r2 == Ev(r1, "encode")
  IN  IF ~d.ok THEN Throw(r2, d.err)
      ELSE LET r3 == BuildInstruction([r2 EXCEPT !.data = d.bytes])
           IN  IF r3.pc = "threw" THEN r3
               ELSE IF r.impl = "web"
                    THEN [Ev(Ev(r3, "buildTransaction"), "requestBlockhash")
                            EXCEPT !.pc = "awaitBlockhash"]
                    ELSE [Ev(Ev(r3, "buildTransaction"), "send")
                            EXCEPT !.pc = "awaitSend"]

\* from the price to the next await: log the expected fee (script), generate
\* the identity, encode, build the instruction and the transaction, then ask
\* for the blockhash (web) or hand over to sendAndConfirmTransaction (script)
Assemble(r, key) ==
  LET r1 == Ev([LogFee(r) EXCEPT !.account = key], "generateIdentity")
      d == Encode(r1)
      r2 == Ev(r1, "encode")
  IN  IF ~d.ok THEN Throw(r2, d.err)
      ELSE LET r3 == BuildInstruction([r2 EXCEPT !.data = d.bytes])
           IN  IF r3.pc = "threw" THEN r3
               ELSE IF r.impl = "web"
                    THEN [Ev(Ev(r3, "buildTransaction"), "requestBlockhash")
                            EXCEPT !.pc = "awaitBlockhash"]
                    ELSE [Ev(Ev(r3, "buildTransaction"), "send")
                            EXCEPT !.pc = "awaitSend"]

\* if (!solPriceUsd)  -- solana-dao.ts: undefined and 0 both take the branch
\* if (sol_price_usd === null) -- client.js: only the default does
NeedsPrice(r) ==
  IF r.impl = "web" THEN ~r.override.given \/ Falsy(r.override.val)
  ELSE ~r.override.given

\* price step of the paid functions, then Assemble
ResolvePrice(r, key) ==
  IF r.kind \in PaidKinds /\ NeedsPrice(r)
  THEN [Ev(r, "requestPrice") EXCEPT !.pc = "awaitPrice"]
  ELSE Assemble([r EXCEPT !.price = r.override.val], key)

\* moduleType !== "POD" && moduleType !== "POL"
ValidateModule(r, key) ==
  IF r.kind = "module"
  THEN IF r.strs[2] # POD /\ r.strs[2] # POL
       THEN Throw(Ev(r, "validateEnum"), "Invalid module type")
       ELSE ResolvePrice(Ev(r, "validateEnum"), key)
  ELSE ResolvePrice(r, key)

\* a build call that does not look at wallet.publicKey
BeginWithoutWalletCheck(r, key) ==
  ValidateModule(IF r.impl = "web" THEN Ev(r, "validateWallet") ELSE r, key)

\* if (!wallet.publicKey) throw new Error("Wallet not connected")
\* (solana-dao.ts only; client.js takes the payer key pair)
Begin(r, key) ==
  IF r.impl = "web"
  THEN IF r.wallet = NoKey THEN Throw(Ev(r, "validateWallet"), "Wallet not connected")
       ELSE ValidateModule(Ev(r, "validateWallet"), key)
  ELSE ValidateModule(r, key)

\* ------------------------------------------------------------------------
\* Collaborators
\* ------------------------------------------------------------------------
\* quotes of the price feed, data.solana.usd in 1/10000 dollar
FeedQuotes == {1000000, 1502550}

\* what the request to the price feed comes to
FeedResponses ==
  {[shape |-> "ok", quote |-> q] : q \in FeedQuotes}
    \cup {[shape |-> f, quote |-> 0] : f \in {"networkError", "notJson", "noSolana", "noUsd"}}

\* fetch, response.json(), data.solana.usd, Math.round(solPriceUsd * 100):
\* a failed request, a body that is not JSON and a body without data.solana
\* throw inside the try and are rethrown as the price error; a body whose
\* data.solana has no usd gives Math.round(undefined * 100), which is NaN
getSolPrice(resp, reading) ==
  CASE resp.shape = "ok" -> [ok |-> TRUE, val |-> Num((resp.quote + 50) \div 100)]
    [] resp.shape = "noUsd" -> [ok |-> TRUE, val |-> NaN(reading)]
    [] OTHER -> [ok |-> FALSE, val |-> Num(0)]

\* ------------------------------------------------------------------------
\* Inputs
\* ------------------------------------------------------------------------
Wallets == {NoKey, WalletKey}
Names == {<<97>>, <<233>>}
ParentIds == {KnownAddresses[1], KnownAddresses[2], MalformedAddress}
TimeInputs == {Num(100), Num(50), Num(-1), MaxI64, MinI64, Pow2_63, Pow2_64}
PriceInputs == {Num(0), Num(10000), Num(-5), MaxU64, Pow2_64}
DayInputs == {Num(1), Num(3)}
VoteInputs == {VoteFor, VoteYes, VoteMaybe}
\* the build calls draw from smaller sets than the encoders called alone
CallTimeInputs == {Num(100), Num(-1), Pow2_64}
CallPriceInputs == {Num(0), Num(10000), Pow2_64}
ModuleInputs == {POD, POL, XYZ}
ABC == <<65, 66, 67>>

Args(strs, ints) == [strs |-> strs, ints |-> ints]

ArgsOf(impl, kind) ==
  CASE kind = "dao" ->
         {Args([i \in 1..11 |-> IF i = 1 THEN n ELSE <<97>>], <<>>) : n \in Names}
    [] kind = "proposal" ->
         {Args(<<a[1], <<97>>, a[2], a[3]>>, <<a[4], a[5]>>) :
            a \in {<<97>>} \X ParentIds \X {<<>>, <<97>>} \X CallTimeInputs \X CallTimeInputs}
    [] kind = "vote" -> {Args(<<a[1], a[2]>>, <<>>) : a \in VoteInputs \X ParentIds}
    [] kind = "featured" ->
         IF impl = "web" THEN {Args(<<d>>, <<>>) : d \in ParentIds}
         ELSE {Args(<<a[1]>>, <<a[2]>>) : a \in ParentIds \X DayInputs}
    [] kind = "module" -> {Args(<<a[1], a[2]>>, <<>>) : a \in ParentIds \X ModuleInputs}

Overrides(kind) ==
  IF kind \in PaidKinds THEN {NoPrice} \cup {Price(x) : x \in CallPriceInputs} ELSE {NoPrice}

\* createFeatured(payer, daoId, days = 1, sol_price_usd = null): what the
\* parameters are bound to by the numbers written after daoId in a call
createFeaturedParams(pos) ==
  [days |-> IF Len(pos) >= 1 THEN pos[1] ELSE Num(1),
   sol_price_usd |-> IF Len(pos) >= 2 THEN Price(pos[2]) ELSE NoPrice]

\* the calls of createFeatured written in the repository: the numbers they
\* pass after daoId, and what their comments say is asked for (main: 7 days;
\* the days test: 1 and 3 days at the mock price; the featured and modules
\* test: the mock price, no days)
FeaturedCallSites ==
  { [site |-> "client.js:635", pos |-> <<Num(7)>>, days |-> Num(7), price |-> NoPrice],
    [site |-> "README:469", pos |-> <<Num(1), Num(10000)>>,
     days |-> Num(1), price |-> Price(Num(10000))],
    [site |-> "README:486", pos |-> <<Num(3), Num(10000)>>,
     days |-> Num(3), price |-> Price(Num(10000))],
    [site |-> "README:624", pos |-> <<Num(10000)>>,
     days |-> Num(1), price |-> Price(Num(10000))] }

\* createDao(payer, name, ..., profile, token_address, sol_price_usd = null):
\* what the parameters are bound to by the strings and the numbers of a call
createDaoParams(strs, nums) ==
  [strs |-> [i \in 1..11 |-> IF i <= Len(strs) THEN strs[i] ELSE Undefined],
   sol_price_usd |-> IF nums # <<>> THEN Price(nums[1]) ELSE NoPrice]

\* the calls of createDao written in the repository: the README and main pass
\* the ten strings from name to profile, the test script those, a
\* token_address and the mock price
DaoCallSites ==
  { [site |-> "README.md:289", strs |-> [i \in 1..10 |-> <<97>>], nums |-> <<>>],
    [site |-> "client.js:599", strs |-> [i \in 1..10 |-> <<97>>], nums |-> <<>>],
    [site |-> "test.js:47", strs |-> [i \in 1..11 |-> <<97>>], nums |-> <<Num(10000)>>] }

Finished(r) == r.pc \in {"idle", "returned", "threw"}

\* key pair number n
Key(n) == <<"gen", n>>

\* this step of the call ran Keypair.generate(): old is the call before the
\* step, or the finished call whose slot the new call takes
Generates(old, new) ==
  Happened(new, "generateIdentity") /\ (Finished(old) \/ ~Happened(old, "generateIdentity"))

\* ------------------------------------------------------------------------
\* Actions
\* ------------------------------------------------------------------------
\* a generator that takes back the key pair of a call that failed and hands
\* it to the next call
UpdateRecyclingKey(c, r) ==
  /\ calls' = [calls EXCEPT ![c] = r]
  /\ nextKey' = IF r.pc = "threw" /\ r.account # NoKey THEN r.account[2]
                ELSE IF Generates(calls[c], r) /\ r.account = Key(nextKey)
                THEN nextKey + 1 ELSE nextKey
  /\ issued' = IF Generates(calls[c], r) THEN Append(issued, r.account) ELSE issued
  /\ UNCHANGED <<blockhash, ser>>

Update(c, r) ==
  /\ calls' = [calls EXCEPT ![c] = r]
  /\ nextKey' = IF Generates(calls[c], r) /\ r.account = Key(nextKey)
                THEN nextKey + 1 ELSE nextKey
  /\ issued' = IF Generates(calls[c], r) THEN Append(issued, r.account) ELSE issued
  /\ UNCHANGED <<blockhash, ser>>

\* createDaoTransaction, createProposalTransaction, createVoteTransaction,
\* createFeaturedTransaction, createModuleTransaction up to their first await
InvokeWeb(c) ==
  /\ Finished(calls[c])
  /\ nextKey <= MaxKeys
  /\ \E kind \in Kinds, wallet \in Wallets :
       \E a \in ArgsOf("web", kind), o \in Overrides(kind) :
         Update(c, Begin(NewCall("web", kind, wallet, a.strs, a.ints, o), Key(nextKey)))

\* createDao, createProposal, vote, createFeatured, activateModule up to
\* their first await
InvokeScript(c) ==
  /\ Finished(calls[c])
  /\ nextKey <= MaxKeys
  /\ \E kind \in Kinds :
       \E a \in ArgsOf("script", kind), o \in Overrides(kind) :
         Update(c, Begin(NewCall("script", kind, WalletKey, a.strs, a.ints, o), Key(nextKey)))

\* createFeatured as main and the test scripts call it, up to its first await
InvokeFeaturedSite(c) ==
  /\ Finished(calls[c])
  /\ nextKey <= MaxKeys
  /\ \E s \in FeaturedCallSites :
       LET p == createFeaturedParams(s.pos)
           r == NewCall("script", "featured", WalletKey, <<KnownAddresses[1]>>, <<p.days>>,
                        p.sol_price_usd)
       IN  Update(c, Begin([r EXCEPT !.site = s.site], Key(nextKey)))

\* createDao as the README, main and the test script call it, up to its first
\* await
InvokeDaoSite(c) ==
  /\ Finished(calls[c])
  /\ nextKey <= MaxKeys
  /\ \E s \in DaoCallSites :
       LET p == createDaoParams(s.strs, s.nums)
           r == NewCall("script", "dao", WalletKey, p.strs, <<>>, p.sol_price_usd)
       IN  Update(c, Begin([r EXCEPT !.site = s.site], Key(nextKey)))

\* await getSolPrice() returns
PriceResolve(c) ==
  /\ calls[c].pc = "awaitPrice"
  /\ \E resp \in FeedResponses, reading \in NaNReadings :
       LET p == getSolPrice(resp, reading)
       IN  /\ p.ok
           /\ IsInteger(p.val) => reading = "rejected"
           /\ Update(c, Assemble([Ev(calls[c], "receivePrice")
                                    EXCEPT !.price = p.val, !.feed = resp.shape],
                                 Key(nextKey)))

\* a build call that asks the price feed again when the request fails
PriceRejectRetrying(c) ==
  /\ calls[c].pc = "awaitPrice"
  /\ Count(calls[c].trace, "requestPrice") < 3
  /\ \E resp \in FeedResponses :
       /\ ~getSolPrice(resp, "rejected").ok
       /\ Update(c, Ev(calls[c], "requestPrice"))

\* await getSolPrice() throws
PriceReject(c) ==
  /\ calls[c].pc = "awaitPrice"
  /\ \E resp \in FeedResponses :
       /\ ~getSolPrice(resp, "rejected").ok
       /\ Update(c, Throw([calls[c] EXCEPT !.feed = resp.shape], "Failed to fetch SOL price"))

\* a build call that stamps the envelope with the first block instead of the
\* one the ledger reports
BlockhashResolveStale(c) ==
  /\ calls[c].pc = "awaitBlockhash"
  /\ LET r == calls[c]
         t1 == [r.tx EXCEPT !.recentBlockhash = 1]
         t2 == [t1 EXCEPT !.feePayer = r.wallet]
         t3 == SignWith(t2, {r.account})
         r1 == Ev(Ev(Ev(Ev(r, "setBlockhash"), "setFeePayer"), "partialSign"), "return")
     IN  Update(c, [r1 EXCEPT !.tx = t3, !.retTx = t3, !.retAccount = r.account,
                              !.pc = "returned"])

\* await connection.getLatestBlockhash() returns; recentBlockhash, feePayer,
\* partialSign, return
BlockhashResolve(c) ==
  /\ calls[c].pc = "awaitBlockhash"
  /\ LET r == calls[c]
         t1 == [r.tx EXCEPT !.recentBlockhash = blockhash]
         t2 == [t1 EXCEPT !.feePayer = r.wallet]
         t3 == SignWith(t2, {r.account})
         r1 == Ev(Ev(Ev(Ev(r, "setBlockhash"), "setFeePayer"), "partialSign"), "return")
     IN  Update(c, [r1 EXCEPT !.tx = t3, !.retTx = t3, !.retAccount = r.account,
                              !.pc = "returned"])

\* a build call that swallows the failure and returns what it has built
BlockhashRejectSwallowed(c) ==
  /\ calls[c].pc = "awaitBlockhash"
  /\ LET r == calls[c]
     IN  Update(c, [Ev(r, "return") EXCEPT !.retTx = r.tx, !.retAccount = r.account,
                                           !.pc = "returned"])

\* await connection.getLatestBlockhash() throws
BlockhashReject(c) ==
  /\ calls[c].pc = "awaitBlockhash"
  /\ Update(c, Throw(calls[c], "failed to get recent blockhash"))

\* await sendAndConfirmTransaction(connection, transaction, [payer, account])
\* returns: the transaction was given the blockhash, signed by both and sent;
\* the function returns account.publicKey
SendResolve(c) ==
  /\ calls[c].pc = "awaitSend"
  /\ LET r == calls[c]
         t1 == [r.tx EXCEPT !.recentBlockhash = blockhash, !.feePayer = r.wallet]
         t2 == SignWith(t1, {r.wallet, r.account})
     IN  Update(c, [Ev(Ev(r, "confirmed"), "return")
                      EXCEPT !.tx = t2, !.retAccount = r.account, !.pc = "returned"])

\* await sendAndConfirmTransaction(...) throws
SendReject(c) ==
  /\ calls[c].pc = "awaitSend"
  /\ Update(c, Throw(calls[c], "failed to send transaction"))

\* the ledger produces a block
NewBlock ==
  /\ blockhash < MaxBlocks
  /\ blockhash' = blockhash + 1
  /\ UNCHANGED <<calls, nextKey, issued, ser>>

NoSer == [fn |-> "none", strs |-> <<>>, ints |-> <<>>, out |-> Ok(<<>>)]

Init ==
  /\ calls = [c \in Slots |-> IdleCall]
  /\ nextKey = 1
  /\ blockhash = 1
  /\ issued = <<>>
  /\ ser = NoSer

Next ==
  \/ \E c \in Slots : InvokeWeb(c)
  \/ \E c \in Slots : InvokeScript(c)
  \/ \E c \in Slots : InvokeFeaturedSite(c)
  \/ \E c \in Slots : InvokeDaoSite(c)
  \/ \E c \in Slots : PriceResolve(c)
  \/ \E c \in Slots : PriceReject(c)
  \/ \E c \in Slots : BlockhashResolve(c)
  \/ \E c \in Slots : BlockhashReject(c)
  \/ \E c \in Slots : SendResolve(c)
  \/ \E c \in Slots : SendReject(c)
  \/ NewBlock

Spec == Init /\ [][Next]_vars

\* ------------------------------------------------------------------------
\* The encoders called on their own
\* ------------------------------------------------------------------------
Record(fn, strs, ints, out) == [fn |-> fn, strs |-> strs, ints |-> ints, out |-> out]

CallSerializeString ==
  /\ \E s \in StringsUpTo(MaxStrLen) :
       ser' = Record("serializeString", <<s>>, <<>>, Ok(serializeString(s)))
  /\ UNCHANGED <<calls, nextKey, blockhash, issued>>

CallSerializeCreateDao ==
  /\ \E n \in Names, p \in PriceInputs :
       LET strs == [i \in 1..11 |-> IF i = 1 THEN n ELSE <<97>>]
       IN  ser' = Record("serializeCreateDaoInstruction", strs, <<p>>,
                  serializeCreateDaoInstruction(strs, p))
  /\ UNCHANGED <<calls, nextKey, blockhash, issued>>

CallSerializeCreateProposal ==
  /\ \E d \in ParentIds, pod \in {<<>>, <<97>>}, s \in TimeInputs, e \in TimeInputs :
       ser' = Record("serializeCreateProposalInstruction", <<<<97>>, <<97>>, d, pod>>, <<s, e>>,
              serializeCreateProposalInstruction(<<97>>, <<97>>, d, pod, s, e))
  /\ UNCHANGED <<calls, nextKey, blockhash, issued>>

CallSerializeVote ==
  /\ \E v \in VoteInputs, p \in ParentIds \cup {ABC} :
       ser' = Record("serializeVoteInstruction", <<v, p>>, <<>>, serializeVoteInstruction(v, p))
  /\ UNCHANGED <<calls, nextKey, blockhash, issued>>

CallSerializeFeatured ==
  /\ \E d \in ParentIds, p \in PriceInputs :
       ser' = Record("serializeFeaturedInstruction", <<d>>, <<p>>, serializeFeaturedInstruction(d, p))
  /\ UNCHANGED <<calls, nextKey, blockhash, issued>>

CallSerializeFeaturedDays ==
  /\ \E d \in ParentIds, n \in DayInputs, p \in PriceInputs :
       ser' = Record("serializeFeaturedInstructionDays", <<d>>, <<n, p>>,
              serializeFeaturedInstructionDays(d, n, p))
  /\ UNCHANGED <<calls, nextKey, blockhash, issued>>

CallSerializeModules ==
  /\ \E d \in ParentIds, m \in ModuleInputs, p \in PriceInputs :
       ser' = Record("serializeModulesInstruction", <<d, m>>, <<p>>,
              serializeModulesInstruction(d, m, p))
  /\ UNCHANGED <<calls, nextKey, blockhash, issued>>

\* the encoders of client.js, called from inside the script
CallSerializeCreateDaoJs ==
  /\ \E n \in Names, p \in PriceInputs :
       LET strs == [i \in 1..11 |-> IF i = 1 THEN n ELSE <<97>>]
       IN  ser' = Record("client.serializeCreateDaoInstruction", strs, <<p>>,
                  serializeCreateDaoInstructionJs(strs, p))
  /\ UNCHANGED <<calls, nextKey, blockhash, issued>>

CallSerializeCreateProposalJs ==
  /\ \E d \in ParentIds, pod \in {<<>>, <<97>>}, s \in TimeInputs, e \in TimeInputs :
       ser' = Record("client.serializeCreateProposalInstruction", <<<<97>>, <<97>>, d, pod>>,
              <<s, e>>, serializeCreateProposalInstructionJs(<<97>>, <<97>>, d, pod, s, e))
  /\ UNCHANGED <<calls, nextKey, blockhash, issued>>

CallSerializeVoteJs ==
  /\ \E v \in VoteInputs, p \in ParentIds \cup {ABC} :
       ser' = Record("client.serializeVoteInstruction", <<v, p>>, <<>>,
              serializeVoteInstructionJs(v, p))
  /\ UNCHANGED <<calls, nextKey, blockhash, issued>>

CallSerializeModulesJs ==
  /\ \E d \in ParentIds, m \in ModuleInputs, p \in PriceInputs :
       ser' = Record("client.serializeModulesInstruction", <<d, m>>, <<p>>,
              serializeModulesInstructionJs(d, m, p))
  /\ UNCHANGED <<calls, nextKey, blockhash, issued>>

EncNext ==
  \/ CallSerializeString
  \/ CallSerializeCreateDao
  \/ CallSerializeCreateProposal
  \/ CallSerializeVote
  \/ CallSerializeFeatured
  \/ CallSerializeFeaturedDays
  \/ CallSerializeModules
  \/ CallSerializeCreateDaoJs
  \/ CallSerializeCreateProposalJs
  \/ CallSerializeVoteJs
  \/ CallSerializeModulesJs

EncSpec == Init /\ [][EncNext]_vars

\* ------------------------------------------------------------------------
\* Two build calls of the web assembler in flight at once
\* ------------------------------------------------------------------------
\* JavaScript runs each call to its next await without interruption, so two
\* calls interleave at getSolPrice() and getLatestBlockhash() only
PairSlots == {1, 2}

\* the calls a page makes: a DAO and a Module at a price it supplies, a
\* Featured listing at the price of the feed, a Proposal of a DAO whose
\* identifier is malformed
PairInputs ==
  { [kind |-> "dao", strs |-> [i \in 1..11 |-> <<97>>], ints |-> <<>>,
     override |-> Price(Num(10000))],
    [kind |-> "module", strs |-> <<KnownAddresses[2], POD>>, ints |-> <<>>,
     override |-> Price(Num(10000))],
    [kind |-> "featured", strs |-> <<KnownAddresses[1]>>, ints |-> <<>>, override |-> NoPrice],
    [kind |-> "proposal", strs |-> <<<<97>>, <<97>>, MalformedAddress, <<>>>>,
     ints |-> <<Num(100), Num(100)>>, override |-> NoPrice] }

PairInvoke(c) ==
  /\ Finished(calls[c])
  /\ nextKey <= MaxKeys
  /\ \E a \in PairInputs :
       Update(c, Begin(NewCall("web", a.kind, WalletKey, a.strs, a.ints, a.override),
                       Key(nextKey)))

PairInit ==
  /\ calls = [c \in PairSlots |-> IdleCall]
  /\ nextKey = 1
  /\ blockhash = 1
  /\ issued = <<>>
  /\ ser = NoSer

PairNext ==
  \/ \E c \in PairSlots : PairInvoke(c)
  \/ \E c \in PairSlots : PriceResolve(c)
  \/ \E c \in PairSlots : PriceReject(c)
  \/ \E c \in PairSlots : BlockhashResolve(c)
  \/ \E c \in PairSlots : BlockhashReject(c)
  \/ NewBlock

PairSpec == PairInit /\ [][PairNext]_vars

\* ------------------------------------------------------------------------
\* Decoding, as the consumer of the wire format reads it
\* ------------------------------------------------------------------------
ReadUInt32LE(b) == b[1] + 256 * b[2] + 65536 * b[3] + 16777216 * b[4]

\* length in bytes of the UTF-8 sequence a lead byte announces, 0 for a byte
\* that cannot lead
Utf8SeqLen(b) ==
  IF b < 128 THEN 1
  ELSE IF b >= 192 /\ b < 224 THEN 2
  ELSE IF b >= 224 /\ b < 240 THEN 3
  ELSE IF b >= 240 /\ b < 248 THEN 4
  ELSE 0

Utf8CodePoint(b) ==
  CASE Len(b) = 1 -> b[1]
    [] Len(b) = 2 -> (b[1] - 192) * 64 + (b[2] - 128)
    [] Len(b) = 3 -> (b[1] - 224) * 4096 + (b[2] - 128) * 64 + (b[3] - 128)
    [] Len(b) = 4 -> (b[1] - 240) * 262144 + (b[2] - 128) * 4096
                     + (b[3] - 128) * 64 + (b[4] - 128)

\* U+FFFD stands for every byte that is not part of a complete sequence
RECURSIVE Utf8Decode(_)
Utf8Decode(b) ==
  IF b = <<>> THEN <<>>
  ELSE LET n == Utf8SeqLen(b[1])
       IN  IF n = 0 \/ n > Len(b) THEN <<65533>> \o Utf8Decode(Tail(b))
           ELSE <<Utf8CodePoint(SubSeq(b, 1, n))>> \o Utf8Decode(SubSeq(b, n + 1, Len(b)))

DecodeString(b) == Utf8Decode(SubSeq(b, 5, 4 + ReadUInt32LE(b)))

RECURSIVE Trim(_)
Trim(m) == IF m = <<>> THEN <<>>
           ELSE IF m[Len(m)] = 0 THEN Trim(SubSeq(m, 1, Len(m) - 1)) ELSE m

DecodeU64(b) == Whole(FALSE, Trim(b))

\* two's complement negation of a little-endian byte string
RECURSIVE Negate(_, _)
Negate(b, carry) ==
  IF b = <<>> THEN <<>>
  ELSE LET v == (255 - b[1]) + carry
       IN  <<v % 256>> \o Negate(Tail(b), v \div 256)

DecodeI64(b) ==
  IF b[8] >= 128 THEN Whole(TRUE, Trim(Negate(b, 1)))
  ELSE Whole(FALSE, Trim(b))

\* the last n bytes of b
Last(b, n) == SubSeq(b, Len(b) - n + 1, Len(b))

\* ------------------------------------------------------------------------
\* Properties
\* ------------------------------------------------------------------------
Built(r) == r.tx.instructions # <<>>

\* C1: every instruction that is built carries the account list of its kind:
\* CreateDao = wallet (signer, writable), new identity (signer, writable),
\* system program (read-only), fee recipient (writable); the other kinds the
\* same with the parsed parent identifier (read-only) at index 3, five long.
C1_AccountTable ==
  \A c \in Slots :
    LET r == calls[c] IN
    Built(r) =>
      LET k == r.tx.instructions[1].keys
          w == [pubkey |-> r.wallet, isSigner |-> TRUE, isWritable |-> TRUE]
          a == [pubkey |-> r.account, isSigner |-> TRUE, isWritable |-> TRUE]
          sp == [pubkey |-> SystemProgramId, isSigner |-> FALSE, isWritable |-> FALSE]
          f == [pubkey |-> FEE_ADDRESS, isSigner |-> FALSE, isWritable |-> TRUE]
      IN  /\ r.account[1] = "gen"
          /\ r.wallet = WalletKey
          /\ r.kind = "dao" => k = <<w, a, sp, f>>
          /\ r.kind # "dao" =>
               /\ Len(k) = 5
               /\ k[3].pubkey[1] = "addr"
               /\ KnownAddresses[k[3].pubkey[2]] = ParentArg(r)
               /\ k = <<w, a, [pubkey |-> k[3].pubkey, isSigner |-> FALSE, isWritable |-> FALSE],
                        sp, f>>

\* a Vote envelope was returned by the web assembler
C1_Witness ==
  \E c \in Slots : calls[c].impl = "web" /\ calls[c].kind = "vote" /\ calls[c].pc = "returned"

\* C2: in every envelope the web assembler returns, the generated identity has
\* signed and the wallet has not; the identity returned with the envelope is
\* the signer and is account reference 1 (the second entry) of the instruction.
C2_PartialSignature ==
  \A c \in Slots :
    LET r == calls[c] IN
    (r.impl = "web" /\ r.pc = "returned") =>
      LET sigs == r.retTx.signatures IN
      /\ r.retAccount[1] = "gen"
      /\ \E i \in DOMAIN sigs : sigs[i].publicKey = r.retAccount /\ sigs[i].signed
      /\ \E i \in DOMAIN sigs : sigs[i].publicKey = r.wallet /\ ~sigs[i].signed
      /\ \A i \in DOMAIN sigs : sigs[i].signed => sigs[i].publicKey = r.retAccount
      /\ r.retTx.instructions[1].keys[2].pubkey = r.retAccount

\* a Featured envelope was returned by the web assembler
C2_Witness ==
  \E c \in Slots : calls[c].impl = "web" /\ calls[c].kind = "featured" /\ calls[c].pc = "returned"

ValidationErrors == {"Wallet not connected", "Invalid module type", "Invalid public key input"}

\* C3: a build call that fails validation (wallet absent, module type outside
\* its set, malformed parent identifier) has generated no identity.
C3_ValidationBeforeIdentity ==
  \A c \in Slots :
    LET r == calls[c] IN
    (r.pc = "threw" /\ r.err \in ValidationErrors) =>
      (~Happened(r, "generateIdentity") /\ r.account = NoKey)

\* C4: a build call that fails on a malformed parent identifier has contacted
\* neither the price feed nor the ledger connection.
C4_MalformedParentBeforeNetwork ==
  \A c \in Slots :
    LET r == calls[c] IN
    (r.pc = "threw" /\ r.err = "Invalid public key input") =>
      /\ ~Happened(r, "requestPrice")
      /\ ~Happened(r, "requestBlockhash")
      /\ ~Happened(r, "send")

\* C5: a vote value outside the closed enumeration never yields a payload or an
\* envelope and is never submitted.
C5_VoteValueRejected ==
  /\ \A c \in Slots :
       LET r == calls[c] IN
       (r.kind = "vote" /\ r.pc # "idle" /\ r.strs[1] \notin VoteValues) =>
         /\ r.data = <<>>
         /\ r.retTx = NoTransaction
         /\ ~Happened(r, "encode")
         /\ ~Happened(r, "send")
  /\ (ser.fn = "serializeVoteInstruction" /\ ser.strs[1] \notin VoteValues) => ~ser.out.ok

\* C6: a module type other than POD or POL fails the Module build before the
\* price feed is contacted, before an identity is generated and before the
\* encoder runs, and the Module builder emits no payload for such a type.
C6_ModuleTypeRejected ==
  /\ \A c \in Slots :
       LET r == calls[c] IN
       (r.kind = "module" /\ r.pc # "idle" /\ r.strs[2] \notin ModuleTypes) =>
         /\ r.pc = "threw"
         /\ r.err = IF r.wallet = NoKey THEN "Wallet not connected" ELSE "Invalid module type"
         /\ ~Happened(r, "requestPrice")
         /\ ~Happened(r, "generateIdentity")
         /\ ~Happened(r, "encode")
  /\ (ser.fn = "serializeModulesInstruction" /\ ser.strs[2] \notin ModuleTypes) => ~ser.out.ok

\* C7: with the wallet identity absent, a build call of the web assembler fails
\* at once with the wallet-not-connected error: no price request, no ledger
\* request, no identity, no payload.
C7_WalletNotConnected ==
  \A c \in Slots :
    LET r == calls[c] IN
    (r.impl = "web" /\ r.pc # "idle" /\ r.wallet = NoKey) =>
      /\ r.pc = "threw"
      /\ r.err = "Wallet not connected"
      /\ r.trace = <<"validateWallet", "throw">>
      /\ r.account = NoKey
      /\ r.data = <<>>
      /\ r.tx = NoTransaction
      /\ r.retTx = NoTransaction

\* a Featured build without price override was called with no wallet
C7_Witness ==
  \E c \in Slots :
    /\ calls[c].impl = "web" /\ calls[c].kind = "featured" /\ calls[c].wallet = NoKey
    /\ ~calls[c].override.given /\ calls[c].pc = "threw"

Precedes(t, a, b) == Pos(t, a) > 0 /\ Pos(t, b) > 0 /\ Pos(t, a) < Pos(t, b)

\* C8: a build call that returns an envelope went through validation (wallet,
\* enumeration, parent identifier), identity generation, encoding, blockhash
\* fetch, partial signing and return, in this order.
C8_PhaseOrder ==
  \A c \in Slots :
    LET r == calls[c]
        t == r.trace
    IN  (r.impl = "web" /\ r.pc = "returned") =>
          /\ Precedes(t, "validateWallet", "generateIdentity")
          /\ Happened(r, "validateEnum") => Precedes(t, "validateEnum", "generateIdentity")
          /\ Happened(r, "parseParent") => Precedes(t, "parseParent", "generateIdentity")
          /\ Precedes(t, "generateIdentity", "encode")
          /\ Precedes(t, "encode", "requestBlockhash")
          /\ Precedes(t, "requestBlockhash", "setBlockhash")
          /\ Precedes(t, "setBlockhash", "partialSign")
          /\ Precedes(t, "setFeePayer", "partialSign")
          /\ Precedes(t, "partialSign", "return")

\* C9: serializeString(s) is the byte length of s in UTF-8 as four bytes,
\* little-endian, followed by exactly the UTF-8 bytes of s; decoding gives s.
C9_StringRoundTrip ==
  ser.fn = "serializeString" =>
    LET s == ser.strs[1]
        out == ser.out.bytes
    IN  /\ Len(out) = 4 + Len(Utf8Str(s))
        /\ ReadUInt32LE(out) = Len(Utf8Str(s))
        /\ SubSeq(out, 5, Len(out)) = Utf8Str(s)
        /\ DecodeString(out) = s

\* the integer fields of a builder are signed for the Proposal (start_time,
\* end_time) and unsigned for the others (days, fee_price)
SignedFields(fn) ==
  fn \in {"serializeCreateProposalInstruction", "client.serializeCreateProposalInstruction"}

\* C10: an integer field that fits its 64-bit type is emitted as eight bytes
\* from which the value is read back exactly; one that does not fit makes the
\* builder fail.
C10_IntegerRoundTrip ==
  (ser.fn # "none" /\ ser.ints # <<>>) =>
    LET n == Len(ser.ints)
        fits(x) == IF SignedFields(ser.fn) THEN FitsI64(x) ELSE FitsU64(x)
        field(i) == SubSeq(Last(ser.out.bytes, 8 * n), 8 * i - 7, 8 * i)
        read(b) == IF SignedFields(ser.fn) THEN DecodeI64(b) ELSE DecodeU64(b)
    IN  IF \A i \in 1..n : fits(ser.ints[i])
        THEN /\ ser.out.ok
             /\ \A i \in 1..n : read(field(i)) = Whole(ser.ints[i].negative /\ ~IsZero(ser.ints[i]),
                                                      ser.ints[i].mag)
        ELSE ~ser.out.ok

\* C11: a negative start_time or end_time that fits the signed 64-bit type is
\* emitted in two's complement, the eight little-endian bytes of n + 2^64, so
\* a timestamp and its negation never give the same bytes.
C11_TwosComplement ==
  (ser.fn = "serializeCreateProposalInstruction" /\ ser.out.ok) =>
    LET n == Len(ser.ints)
        field(i) == SubSeq(Last(ser.out.bytes, 8 * n), 8 * i - 7, 8 * i)
        plain(x) == ToArrayLE(x.mag, 8).bytes
    IN  \A i \in 1..n :
          (ser.ints[i].negative /\ ~IsZero(ser.ints[i]) /\ FitsI64(ser.ints[i])) =>
            /\ field(i) = Negate(plain(ser.ints[i]), 1)
            /\ field(i) # plain(ser.ints[i])

\* C12: the payload of every build call opens with one byte naming the kind
\* of instruction, 0 CreateDao, 1 CreateProposal, 2 Vote, 3 Featured and
\* 4 Module, in the web assembler and in the script client alike, so no two
\* kinds open with the same byte.
C12_TagByte ==
  \A c \in Slots :
    LET r == calls[c]
    IN  r.data # <<>> =>
          r.data[1] = CASE r.kind = "dao" -> 0
                        [] r.kind = "proposal" -> 1
                        [] r.kind = "vote" -> 2
                        [] r.kind = "featured" -> 3
                        [] r.kind = "module" -> 4

C12_Witness ==
  \E c \in Slots :
    /\ calls[c].impl = "script"
    /\ calls[c].kind = "featured"
    /\ calls[c].pc = "returned"
    /\ calls[c].data[1] = 3

\* the strings of a payload as the wire contract lays them out: each one its
\* UTF-8 byte length on four bytes, little-endian, then its UTF-8 bytes
RECURSIVE WireStrings(_)
WireStrings(ss) ==
  IF ss = <<>> THEN <<>>
  ELSE WriteUInt32LE(Len(Utf8Str(Head(ss)))) \o Utf8Str(Head(ss)) \o WireStrings(Tail(ss))

\* C13: a payload is the tag byte, then the strings of the entity in the order
\* of the data model, each as length and bytes, then the integers on eight
\* bytes each; its length is 1 + the sum of (4 + byte length) over the strings
\* + 8 per integer, which makes 15 bytes for the Vote of "for" on "ABC".
C13_PayloadLayout ==
  (ser.fn \notin {"none", "serializeString"} /\ ser.out.ok) =>
    LET out == ser.out.bytes
        w == WireStrings(ser.strs)
    IN  /\ Len(out) = 1 + Len(w) + 8 * Len(ser.ints)
        /\ SubSeq(out, 2, 1 + Len(w)) = w
        /\ (ser.fn = "serializeVoteInstruction" /\ ser.strs = <<VoteFor, ABC>>) => Len(out) = 15

\* C14: a paid build call given a unit price by its caller, any unsigned
\* 64-bit value and 0 among them, never asks the price feed and puts exactly
\* that value in the fee_price of its payload.
C14_SuppliedPriceUsed ==
  \A c \in Slots :
    LET r == calls[c]
    IN  (r.kind \in PaidKinds /\ r.override.given /\ FitsU64(r.override.val)) =>
          /\ ~Happened(r, "requestPrice")
          /\ r.data # <<>> => Last(r.data, 8) = ToArrayLE(r.override.val.mag, 8).bytes

\* the call sites of createFeatured in the test scripts, which pass a price
PricedFeaturedSites == {s \in FeaturedCallSites : s.price.given}

\* C15: createFeatured called as the test scripts call it, the mock price
\* written after daoId or after the days, embeds that price as fee_price
\* without asking the price feed and encodes the days the test asks for, one
\* day when the call names none.
C15_TestPriceEmbedded ==
  \A c \in Slots :
    LET r == calls[c]
    IN  \A s \in PricedFeaturedSites :
          r.site = s.site =>
            /\ ~Happened(r, "requestPrice")
            /\ r.data # <<>> =>
                 /\ Last(r.data, 8) = ToArrayLE(s.price.val.mag, 8).bytes
                 /\ SubSeq(Last(r.data, 16), 1, 8) = ToArrayLE(s.days.mag, 8).bytes

\* C16: getSolPrice either returns a whole number of minor fiat units or
\* fails with the price error; a call that went on after asking the price
\* feed holds an integer price, never NaN or undefined.
C16_PriceIsIntegerOrFails ==
  \A c \in Slots :
    LET r == calls[c]
    IN  /\ Happened(r, "receivePrice") => IsInteger(r.price)
        /\ (Happened(r, "requestPrice") /\ r.data # <<>>) => IsInteger(r.price)

\* C17: a build call never retries: it asks the price feed at most once and
\* the ledger for the recent block at most once, and the first failure of
\* either request ends the call with that error.
C17_NoRetry ==
  \A c \in Slots :
    LET r == calls[c]
        t == r.trace
    IN  /\ Count(t, "requestPrice") <= 1
        /\ Count(t, "requestBlockhash") <= 1
        /\ r.err \in {"Failed to fetch SOL price", "failed to get recent blockhash"} =>
             /\ r.pc = "threw"
             /\ t[Len(t)] = "throw"
             /\ t[Len(t) - 1] \in {"requestPrice", "requestBlockhash"}
             /\ ~Happened(r, "return")

C17_Witness ==
  \E c \in Slots :
    /\ calls[c].err = "Failed to fetch SOL price"
    /\ Count(calls[c].trace, "requestPrice") = 1
    /\ calls[c].pc = "threw"

\* C18: when the request for the recent block fails, the build call fails,
\* after its identity was generated, and returns neither an envelope nor the
\* identity; an envelope handed to the caller always has its blockhash and
\* the signature of the generated identity.
C18_BlockhashFailure ==
  \A c \in Slots :
    LET r == calls[c]
    IN  /\ r.err = "failed to get recent blockhash" =>
             /\ r.pc = "threw"
             /\ Precedes(r.trace, "generateIdentity", "throw")
             /\ r.account[1] = "gen"
             /\ r.retTx = NoTransaction
             /\ r.retAccount = NoKey
        /\ r.retTx # NoTransaction =>
             /\ r.retTx.recentBlockhash # 0
             /\ Precedes(r.trace, "setBlockhash", "return")
             /\ \E i \in DOMAIN r.retTx.signatures :
                  r.retTx.signatures[i].publicKey = r.account /\ r.retTx.signatures[i].signed

C18_Witness ==
  \E c \in Slots :
    /\ calls[c].impl = "web"
    /\ calls[c].err = "failed to get recent blockhash"
    /\ calls[c].account[1] = "gen"
    /\ calls[c].tx.instructions # <<>>

\* C19: the envelope a build call returns is complete: it holds exactly one
\* instruction, addressed to the configured program, whose data is the payload
\* the builder made of the call's arguments; its blockhash is the one the
\* ledger reported to this call and its fee payer is the caller's wallet.
C19_EnvelopeComplete ==
  [][\A c \in Slots :
       (calls[c].pc = "awaitBlockhash" /\ calls'[c].pc = "returned") =>
         LET r == calls'[c]
             tx == r.retTx
         IN  /\ Len(tx.instructions) = 1
             /\ tx.instructions[1].programId = PROGRAM_ID
             /\ Encode(r).ok
             /\ tx.instructions[1].data = Encode(r).bytes
             /\ tx.recentBlockhash = blockhash
             /\ tx.feePayer = r.wallet
             /\ r.wallet = WalletKey]_vars

C19_Witness ==
  \E c \in Slots :
    /\ calls[c].impl = "web"
    /\ calls[c].kind = "module"
    /\ calls[c].pc = "returned"
    /\ calls[c].retTx.recentBlockhash = MaxBlocks
    /\ calls[c].retTx.feePayer = WalletKey

\* C20: over any sequence of build calls, returned or failed, a call generates
\* at most one identity, and the identities generated are pairwise distinct:
\* none serves two calls.
C20_IdentitiesDistinct ==
  /\ \A i, j \in DOMAIN issued : i # j => issued[i] # issued[j]
  /\ \A c \in Slots :
       LET r == calls[c]
       IN  /\ Count(r.trace, "generateIdentity") <= 1
           /\ Happened(r, "generateIdentity") =>
                /\ r.account[1] = "gen"
                /\ Cardinality({i \in DOMAIN issued : issued[i] = r.account}) = 1
           /\ r.retAccount # NoKey => r.retAccount = r.account

C20_Witness ==
  /\ Len(issued) >= 2
  /\ \E c \in Slots :
       /\ calls[c].pc = "threw"
       /\ Happened(calls[c], "generateIdentity")
       /\ calls[c].account = issued[Len(issued)]

\* the arguments of a build call
Inputs(r) == <<r.impl, r.kind, r.wallet, r.strs, r.ints, r.override>>

\* an account list with the entry of the generated identity left out
WithoutIdentity(keys) == [i \in DOMAIN keys \ {2} |-> keys[i]]

OwnInstruction(r) ==
  [keys |-> IF r.kind = "dao" THEN DaoKeys(r.wallet, r.account)
            ELSE ParentKeys(r.wallet, r.account, NewPublicKey(ParentArg(r)).key),
   programId |-> PROGRAM_ID,
   data |-> Encode(r).bytes]

\* C22: two build calls interleaved at their awaits never touch each other:
\* what a call has built, and the envelope it returns, holds its own payload,
\* its own parent and the signature of its own identity only, as it would had
\* the call run alone.
C22_NoContention ==
  \A c \in PairSlots :
    LET r == calls[c]
    IN  /\ Built(r) => r.tx.instructions = <<OwnInstruction(r)>>
        /\ r.pc = "returned" =>
             /\ r.retTx.instructions = <<OwnInstruction(r)>>
             /\ r.retTx.feePayer = r.wallet
             /\ r.retTx.recentBlockhash \in 1..blockhash
             /\ r.retAccount = r.account
             /\ \A i \in DOMAIN r.retTx.signatures :
                  r.retTx.signatures[i].signed <=> r.retTx.signatures[i].publicKey = r.account
             /\ \A d \in PairSlots \ {c} :
                  Happened(calls[d], "generateIdentity") => calls[d].account # r.account

\* the Featured call, started after the Module call had built its transaction,
\* has returned while the Module call still waits for the ledger
C22_Witness ==
  /\ calls[1].kind = "featured"
  /\ calls[1].pc = "returned"
  /\ calls[2].kind = "module"
  /\ calls[2].pc = "awaitBlockhash"
  /\ calls[2].account[2] < calls[1].account[2]
  /\ calls[1].retTx.instructions[1].data # calls[2].tx.instructions[1].data

\* the least integer not below the number with digits ds divided by p
CeilingOfQuotient(ds, p) ==
  LET d == LongDivide(ds, p, 0, <<>>)
  IN  IF d.r > 0 THEN TrimDigits(AddOne(d.q)) ELSE d.q

\* C23: the fee in lamports expected for a $20 operation at a unit price of
\* p cents is the ceiling of 2000 * 10^9 / p, for every positive integer p;
\* at p = 10000 it is 200,000,000 lamports.
C23_FeeIsCeiling ==
  \A c \in Slots :
    LET r == calls[c]
    IN  (r.kind \in {"dao", "module"} /\ r.fee # <<>> /\ IsInteger(r.price)
           /\ Len(r.price.mag) \in 1..3) =>
          /\ r.fee = CeilingOfQuotient(DigitsOf(2000) \o Zeros(9), ToNat(r.price.mag))
          /\ r.price = Num(10000) => r.fee = <<2, 0, 0, 0, 0, 0, 0, 0, 0>>

\* C24: the paid functions of the script client expect the fee of one formula:
\* at the same unit price activateModule expects what createDao expects, and
\* createFeatured for d days what the formula gives for a target of $20 * d,
\* the fee of createDao when d = 1.
C24_OneFeeFormula ==
  \A c \in Slots :
    LET r == calls[c]
    IN  (r.impl = "script" /\ r.kind \in PaidKinds /\ Happened(r, "generateIdentity")) =>
          CASE r.kind = "dao" -> r.fee = FeeInLamports(20, r.price)
            [] r.kind = "module" -> r.fee = createDaoFee(r.price)
            [] r.kind = "featured" ->
                 /\ r.fee = FeeInLamports(20 * ToNat(r.ints[1].mag), r.price)
                 /\ r.ints[1] = Num(1) => r.fee = createDaoFee(r.price)

\* createFeatured for 3 days at 10000 cents has computed 600,000,000 lamports
C24_Witness ==
  \E c \in Slots :
    /\ calls[c].impl = "script"
    /\ calls[c].kind = "featured"
    /\ calls[c].ints = <<Num(3)>>
    /\ calls[c].price = Num(10000)
    /\ calls[c].fee = <<6, 0, 0, 0, 0, 0, 0, 0, 0>>

\* the calls of createDao that pass the ten strings and nothing more
DocumentedDaoSites == {s.site : s \in {t \in DaoCallSites : Len(t.strs) = 10 /\ t.nums = <<>>}}

\* C25: createDao called as the README documents it, with the ten strings
\* from name to profile and neither token_address nor price, asks the price
\* feed and, given a price, encodes and submits a CreateDao instruction that
\* carries it; it does not fail for the arguments left out.
C25_DocumentedCreateDao ==
  \A c \in Slots :
    LET r == calls[c]
    IN  r.site \in DocumentedDaoSites =>
          /\ Happened(r, "requestPrice")
          /\ r.err # "Cannot read properties of undefined"
          /\ (Happened(r, "receivePrice") /\ IsInteger(r.price)) =>
               /\ Happened(r, "send")
               /\ r.data # <<>>
               /\ r.data[1] = 0
               /\ Last(r.data, 8) = ToArrayLE(r.price.mag, 8).bytes

\* C26: no ordering of the two timestamps is enforced: whenever both fit the
\* signed 64-bit type, whether start_time is before, at or after end_time, the
\* Proposal builder and the build call do not reject them, and the payload
\* ends with start_time then end_time, each read back as given.
C26_NoTimeOrdering ==
  \A c \in Slots :
    LET r == calls[c]
    IN  (r.kind = "proposal" /\ Happened(r, "encode")
           /\ FitsI64(r.ints[1]) /\ FitsI64(r.ints[2])) =>
          /\ r.data # <<>>
          /\ r.err \notin {"ByteArrayLongerThanDesired", "Invalid character"}
          /\ DecodeI64(SubSeq(Last(r.data, 16), 1, 8)) = r.ints[1]
          /\ DecodeI64(Last(r.data, 8)) = r.ints[2]

\* C27: the empty string is encoded as four zero bytes and nothing else, and
\* the Proposal builder accepts an empty pod_id: its payload holds a pod_id
\* field of length zero between dao_id and start_time.
C27_EmptyString ==
  /\ (ser.fn = "serializeString" /\ ser.strs = <<<<>>>>) => ser.out.bytes = <<0, 0, 0, 0>>
  /\ (ser.fn = "serializeCreateProposalInstruction" /\ ser.strs[4] = <<>>
        /\ FitsI64(ser.ints[1]) /\ FitsI64(ser.ints[2])) =>
       LET b == ser.out.bytes
           upToDaoId == 1 + (4 + Len(Utf8Str(ser.strs[1]))) + (4 + Len(Utf8Str(ser.strs[2])))
                          + (4 + Len(Utf8Str(ser.strs[3])))
       IN  /\ ser.out.ok
           /\ Len(b) = upToDaoId + 4 + 16
           /\ SubSeq(b, upToDaoId - Len(Utf8Str(ser.strs[3])) + 1, upToDaoId) = Utf8Str(ser.strs[3])
           /\ SubSeq(b, upToDaoId + 1, upToDaoId + 4) = <<0, 0, 0, 0>>
           /\ SubSeq(b, upToDaoId + 5, upToDaoId + 12) = ToArrayLE(ser.ints[1].mag, 8).bytes

C27_Witness ==
  /\ ser.fn = "serializeCreateProposalInstruction"
  /\ ser.strs[4] = <<>>
  /\ ser.ints = <<Num(100), Num(50)>>
  /\ ser.out.ok
  /\ Len(ser.out.bytes) = 37

\* the failures a build call can meet on its way
BuildFailures ==
  {"Failed to fetch SOL price", "Invalid public key input", "failed to get recent blockhash"}

\* C28: a build call that failed, on the price, on the parent identifier or on
\* the recent block, has returned nothing and left nothing behind: a call with
\* the same arguments that succeeds returns the payload and the account list
\* of a first call, with an identity of its own, not the one of the failed
\* call.
C28_RetryIsSafe ==
  \A c \in PairSlots, d \in PairSlots :
    LET r == calls[c]
        q == calls[d]
    IN  (c # d /\ r.err \in BuildFailures) =>
          /\ r.pc = "threw"
          /\ r.retTx = NoTransaction
          /\ r.retAccount = NoKey
          /\ (Inputs(q) = Inputs(r) /\ q.pc = "returned") =>
               /\ q.retTx.instructions = <<OwnInstruction(q)>>
               /\ q.retAccount = q.account
               /\ q.account # r.account
               /\ Cardinality({i \in DOMAIN issued : issued[i] = q.account}) = 1
               /\ \A i \in DOMAIN q.retTx.signatures :
                    q.retTx.signatures[i].publicKey # r.account

\* the Featured call of slot 1 failed on the recent block after it generated
\* its identity; the same call made again in slot 2 has returned
C28_Witness ==
  /\ calls[1].err = "failed to get recent blockhash"
  /\ calls[1].account[1] = "gen"
  /\ Inputs(calls[2]) = Inputs(calls[1])
  /\ calls[2].pc = "returned"
  /\ calls[2].account[2] > calls[1].account[2]

\* what the price feed answers when it does not give a price
FeedFailures == {resp.shape : resp \in {f \in FeedResponses : f.shape # "ok"}}

\* C29: a paid build call has its price before it generates its identity, and
\* when the price feed fails the call ends with no identity generated, no
\* payload encoded and no request made to the ledger.
C29_PriceBeforeIdentity ==
  \A c \in Slots :
    LET r == calls[c]
    IN  /\ (Happened(r, "requestPrice") /\ Happened(r, "generateIdentity")) =>
             Precedes(r.trace, "receivePrice", "generateIdentity")
        /\ r.feed \in FeedFailures =>
             /\ r.pc = "threw"
             /\ ~Happened(r, "generateIdentity")
             /\ r.account = NoKey
             /\ r.data = <<>>
             /\ ~Happened(r, "requestBlockhash")
             /\ ~Happened(r, "send")

\* the web encoder that answers to an encoder of the script client
WebTwin(fn, strs, ints) ==
  CASE fn = "client.serializeCreateDaoInstruction" ->
         serializeCreateDaoInstruction(strs, ints[1])
    [] fn = "client.serializeCreateProposalInstruction" ->
         serializeCreateProposalInstruction(strs[1], strs[2], strs[3], strs[4],
                                            ints[1], ints[2])
    [] fn = "client.serializeVoteInstruction" -> serializeVoteInstruction(strs[1], strs[2])
    [] fn = "client.serializeModulesInstruction" ->
         serializeModulesInstruction(strs[1], strs[2], ints[1])

ScriptEncoders ==
  {"client.serializeCreateDaoInstruction", "client.serializeCreateProposalInstruction",
   "client.serializeVoteInstruction", "client.serializeModulesInstruction"}

====
